---------------------------- MODULE Spec2Model ----------------------------
(***************************************************************************)
(* A model of the MD5-to-CNF encoder of src/collider.py (class MD5Collider) *)
(* and of the integer reference implementation of src/md5.py (class MD5).   *)
(*                                                                          *)
(* An encoder instance is a record                                          *)
(*   var_idx        the allocation counter (self.var_idx)                   *)
(*   clauses        the clauses handed to self.solver.add_clause, in order  *)
(*   a, b, c, d, x  the bit vectors self.a .. self.x (MSB first)            *)
(*   target_digest  self.target_digest (NoneWide when absent)               *)
(*   ret            the value returned by the method that ran last          *)
(*   issued         history: every identifier handed out by _init_number /  *)
(*                  _init_bit, in the order it was handed out               *)
(*   steps          history: every call of add_md5_iteration, in call order,*)
(*                  with its arguments and the tuple it returned            *)
(* and every method is an operator from the record before the call to the   *)
(* record after it.  Python indices are kept (0-based); At(v, i) reads v[i].*)
(*                                                                          *)
(* The source fixes a byte to 8 bits and a word to 4 bytes.  The encoder is *)
(* modelled at the reduced widths ByteBits and WordBytes below; every literal*)
(* 8, 32, 64 and 512 of the source is the corresponding product of them,    *)
(* and the 32-bit constants (IV, K) are reduced modulo 2^WordBits.          *)
(***************************************************************************)
EXTENDS Integers, Sequences, FiniteSets, Bags, TLC

\* ------------------------------------------------------------------ widths
ByteBits  == 2
WordBytes == 2
ChunkWords == 16
RoundSteps == 16

WordBits   == WordBytes * ByteBits
ChunkBytes == ChunkWords * WordBytes
ChunkBits  == ChunkBytes * ByteBits

\* None, for a vector argument and for the target digest
NoneVec == <<0>>
NoneWide == <<-1>>

RECURSIVE Pow2(_)
Pow2(n) == IF n = 0 THEN 1 ELSE 2 * Pow2(n - 1)

WordMod == Pow2(WordBits)

\* x >> n and (x >> n) & 1 of Python, for x >= 0
Shr(x, n) == x \div Pow2(n)
BitOf(x, n) == Shr(x, n) % 2

At(v, i) == v[i + 1]
\* Python slice v[lo:hi]
Slice(v, lo, hi) == [kk \in 1..(hi - lo) |-> v[lo + kk]]

\* --------------------------------------------------------------- sequencing
\* Then(stmt, Rest): the statement stmt runs once, and Rest is applied to the
\* record (or value) it leaves.  A method body is a chain of Then, one link per
\* statement, in program order.
Only(S) == CHOOSE r \in S : TRUE
Then(stmt, Rest(_)) == Only({Rest(done) : done \in {stmt}})

\* the elements of groups (each of g elements), in order, as one list
Flatten(groups, g) ==
    [kk \in 1..(g * Len(groups)) |-> groups[((kk - 1) \div g) + 1][((kk - 1) % g) + 1]]

\* ------------------------------------------------------------- allocation
add_clause(self, cl) == [self EXCEPT !.clauses = Append(@, cl)]
add_clauses(self, cls) == [self EXCEPT !.clauses = @ \o cls]

\* variant: the counter is not advanced
fresh_noinc(self) ==
    [bit_var |-> self.var_idx,
     self |-> [self EXCEPT !.issued = Append(@, self.var_idx)]]

\* bit_var = self.var_idx; self.var_idx += 1   (the identifier is left in bit_var)
fresh(self) ==
    [bit_var |-> self.var_idx,
     self |-> [self EXCEPT !.var_idx = @ + 1, !.issued = Append(@, self.var_idx)]]

\* _init_bit; ret holds the one identifier as a vector of length 1
init_bit(self) ==
    Then(fresh(self), LAMBDA f : [f.self EXCEPT !.ret = <<f.bit_var>>])

\* for _ in range(lo, hi): num.append(self.var_idx); self.var_idx += 1   (num is ret)
RECURSIVE init_number_loop(_, _, _)
init_number_loop(self, lo, hi) ==
    IF lo >= hi THEN self
    ELSE IF hi = lo + 1
    THEN Then(fresh(self), LAMBDA f : [f.self EXCEPT !.ret = Append(@, f.bit_var)])
    ELSE Then(init_number_loop(self, lo, (lo + hi) \div 2),
              LAMBDA s : init_number_loop(s, (lo + hi) \div 2, hi))

\* _init_number
init_number(self, num_bits) ==
    init_number_loop([self EXCEPT !.ret = <<>>], 0, num_bits)

\* `c if c is not None else self._init_number(len(a))`
OutVec(self, a, c) == IF c # NoneVec THEN [self EXCEPT !.ret = c]
                      ELSE init_number(self, Len(a))

\* ------------------------------------------------------------ bit slicing
get_byte_vars(bit_array, byte_idx) ==
    Slice(bit_array, byte_idx * ByteBits, (byte_idx + 1) * ByteBits)

get_word_vars(bit_array, word_idx) ==
    Slice(bit_array, word_idx * WordBits, (word_idx + 1) * WordBits)

\* for i in range(len // 8 - 1, -1, -1): new.extend(byte i)
convert_endianness(bit_array) ==
    Flatten([kk \in 1..(Len(bit_array) \div ByteBits) |->
                get_byte_vars(bit_array, (Len(bit_array) \div ByteBits) - kk)],
            ByteBits)

\* ------------------------------------------------- constants and equality
\* The loop runs over range(len(a)) and indexes b with the same i: it stops with
\* an IndexError at i = len(b) when b is the shorter vector, after the clauses of
\* the bits before, and it ends normally at len(a) otherwise.
equality_raises(a, b) == Len(a) > Len(b)

add_equality(self, a, b) ==
    add_clauses(self,
        Flatten([kk \in 1..(IF equality_raises(a, b) THEN Len(b) ELSE Len(a)) |->
                    << <<-At(a, kk - 1), At(b, kk - 1)>>,
                       <<At(a, kk - 1), -At(b, kk - 1)>> >>], 2))

\* variant: exclude_bits is ignored
constant_literal_ignore_exclude(bit_array, constant, exclude_bits, i) ==
    IF BitOf(constant, Len(bit_array) - i - 1) = 1 THEN At(bit_array, i)
    ELSE -At(bit_array, i)

\* the literal of the unit clause _add_constant emits for position i:
\* multiplier * bit_array[i] when c_bit == 1, multiplier * -bit_array[i] otherwise
constant_literal(bit_array, constant, exclude_bits, i) ==
    LET multiplier == IF i \in exclude_bits THEN -1 ELSE 1
        c_bit == BitOf(constant, Len(bit_array) - i - 1)
    IN IF c_bit = 1 THEN multiplier * At(bit_array, i)
       ELSE multiplier * (-At(bit_array, i))

\* _add_constant: one unit clause per position; returns bit_array.
\* Enabled only when the assert 2 ** len(bit_array) > constant holds.
add_constant(self, bit_array, constant, exclude_bits) ==
    [add_clauses(self,
        [kk \in 1..Len(bit_array) |->
            <<constant_literal(bit_array, constant, exclude_bits, kk - 1)>>])
     EXCEPT !.ret = bit_array]

\* ------------------------------------------------------------------ gates
\* the clauses of one gate at bit i, in the order the source adds them
or_clauses(a, b, c, i) ==
    << <<At(a, i), At(b, i), -At(c, i)>>,
       <<-At(a, i), At(c, i)>>,
       <<-At(b, i), At(c, i)>> >>

and_clauses(a, b, c, i) ==
    << <<-At(a, i), -At(b, i), At(c, i)>>,
       <<At(a, i), -At(c, i)>>,
       <<At(b, i), -At(c, i)>> >>

\* variant: the clause that forbids a = b = c = 1 is missing (the second is repeated)
xor_clauses_weak(a, b, c, i) ==
    << <<At(a, i), At(b, i), -At(c, i)>>,
       <<At(a, i), At(b, i), -At(c, i)>>,
       <<At(a, i), -At(b, i), At(c, i)>>,
       <<-At(a, i), At(b, i), At(c, i)>> >>

xor_clauses(a, b, c, i) ==
    << <<-At(a, i), -At(b, i), -At(c, i)>>,
       <<At(a, i), At(b, i), -At(c, i)>>,
       <<At(a, i), -At(b, i), At(c, i)>>,
       <<-At(a, i), At(b, i), At(c, i)>> >>

not_clauses(a, b, i) ==
    << <<-At(a, i), -At(b, i)>>,
       <<At(a, i), At(b, i)>> >>

\* each gate: the output vector (given or allocated), then for i in range(len(a))
\* the clauses of bit i; returns the output vector
add_or(self, a, b, c) ==
    Then(OutVec(self, a, c), LAMBDA s :
        add_clauses(s, Flatten([kk \in 1..Len(a) |-> or_clauses(a, b, s.ret, kk - 1)], 3)))

add_and(self, a, b, c) ==
    Then(OutVec(self, a, c), LAMBDA s :
        add_clauses(s, Flatten([kk \in 1..Len(a) |-> and_clauses(a, b, s.ret, kk - 1)], 3)))

add_xor(self, a, b, c) ==
    Then(OutVec(self, a, c), LAMBDA s :
        add_clauses(s, Flatten([kk \in 1..Len(a) |-> xor_clauses(a, b, s.ret, kk - 1)], 4)))

add_not(self, a, b) ==
    Then(OutVec(self, a, b), LAMBDA s :
        add_clauses(s, Flatten([kk \in 1..Len(a) |-> not_clauses(a, s.ret, kk - 1)], 2)))

\* ------------------------------------------------------------- arithmetic
\* variant: the half adder does not drive the carry into the next bit
sum_half_nocarry(self, a, b, c, carry, idx) ==
    add_xor(self, <<At(a, idx)>>, <<At(b, idx)>>, <<At(c, idx)>>)

\* the half adder of the least significant bit (i == 0)
sum_half(self, a, b, c, carry, idx) ==
    Then(add_xor(self, <<At(a, idx)>>, <<At(b, idx)>>, <<At(c, idx)>>), LAMBDA s1 :
        IF idx > 0
        THEN add_and(s1, <<At(a, idx)>>, <<At(b, idx)>>, <<At(carry, idx - 1)>>)
        ELSE s1)

\* the carry out of a full adder (idx > 0)
sum_carry(self, a, b, carry, ab_xor, idx) ==
    Then(init_bit(self), LAMBDA s4 :
    Then(init_bit(s4), LAMBDA s5 :
    Then(add_and(s5, <<At(a, idx)>>, <<At(b, idx)>>, s4.ret), LAMBDA s6 :
    Then(add_and(s6, <<At(carry, idx)>>, ab_xor, s5.ret), LAMBDA s7 :
        add_or(s7, s4.ret, s5.ret, <<At(carry, idx - 1)>>)))))

\* the full adder of the other bits (i > 0)
sum_full(self, a, b, c, carry, idx) ==
    Then(init_bit(self), LAMBDA s1 :
    Then(add_xor(s1, <<At(a, idx)>>, <<At(b, idx)>>, s1.ret), LAMBDA s2 :
    Then(add_xor(s2, <<At(carry, idx)>>, s1.ret, <<At(c, idx)>>), LAMBDA s3 :
        IF idx > 0 THEN sum_carry(s3, a, b, carry, s1.ret, idx) ELSE s3)))

\* one pass of the loop body of _add_sum, for loop index i (idx = len(a) - i - 1)
sum_step(self, a, b, c, carry, i) ==
    IF i = 0 THEN sum_half(self, a, b, c, carry, Len(a) - i - 1)
    ELSE sum_full(self, a, b, c, carry, Len(a) - i - 1)

\* for i in range(lo, hi): the loop body
RECURSIVE sum_loop(_, _, _, _, _, _, _)
sum_loop(self, a, b, c, carry, lo, hi) ==
    IF lo >= hi THEN self
    ELSE IF hi = lo + 1 THEN sum_step(self, a, b, c, carry, lo)
    ELSE Then(sum_loop(self, a, b, c, carry, lo, (lo + hi) \div 2),
              LAMBDA s : sum_loop(s, a, b, c, carry, (lo + hi) \div 2, hi))

\* _add_sum: c = (a + b) mod 2^n, ripple carry from index n-1 down to 0
add_sum(self, a, b, c) ==
    Then(OutVec(self, a, c), LAMBDA s0 :
    Then(init_number(s0, Len(a)), LAMBDA s1 :
        [sum_loop(s1, a, b, s0.ret, s1.ret, 0, Len(a)) EXCEPT !.ret = s0.ret]))

\* variant: the rotation goes the other way
rotate_b_idx_right(len, i, n) == (len + i + n) % len

rotate_b_idx(len, i, n) == (len + i - n) % len

rotate_clauses(a, n, b, i) ==
    << <<At(a, i), -At(b, rotate_b_idx(Len(a), i, n))>>,
       <<-At(a, i), At(b, rotate_b_idx(Len(a), i, n))>> >>

\* _add_rotate_left: two clauses per bit, no gate variable
add_rotate_left(self, a, n, b) ==
    Then(OutVec(self, a, b), LAMBDA s :
        add_clauses(s, Flatten([kk \in 1..Len(a) |-> rotate_clauses(a, n, s.ret, kk - 1)], 2)))

\* ----------------------------------------------------------------- solver
\* The SAT solver behind self.solver (PySAT): complete search by unit
\* propagation and branching.  An assignment maps each variable 1..N to
\* 1 (true), -1 (false) or 0 (not yet decided).
Abs(l) == IF l < 0 THEN -l ELSE l
LitVal(asg, l) == IF l > 0 THEN asg[l] ELSE -asg[-l]

\* the literals of cl that asg leaves undecided
free_lits(asg, cl) == {cl[kk] : kk \in {jj \in 1..Len(cl) : LitVal(asg, cl[jj]) = 0}}

scan_free(st, free) ==
    IF free = {} THEN [st EXCEPT !.conflict = TRUE]
    ELSE IF Cardinality(free) = 1
    THEN Then(Only(free), LAMBDA l : [st EXCEPT !.asg[Abs(l)] = IF l > 0 THEN 1 ELSE -1])
    ELSE [st EXCEPT !.pick = IF @ = 0 THEN Abs(Only(free)) ELSE @]

scan_clause(st, cl) ==
    IF st.conflict \/ (\E kk \in 1..Len(cl) : LitVal(st.asg, cl[kk]) = 1) THEN st
    ELSE Then(free_lits(st.asg, cl), LAMBDA free : scan_free(st, free))

\* one pass over clauses lo..hi, in order
RECURSIVE scan(_, _, _, _)
scan(cls, st, lo, hi) ==
    IF lo > hi THEN st
    ELSE IF lo = hi THEN scan_clause(st, cls[lo])
    ELSE Then(scan(cls, st, lo, (lo + hi) \div 2), LAMBDA left :
            IF left.conflict THEN left ELSE scan(cls, left, ((lo + hi) \div 2) + 1, hi))

\* passes until a conflict, no undecided clause, or no new assignment
RECURSIVE propagate(_, _)
propagate(cls, asg) ==
    Then(scan(cls, [asg |-> asg, conflict |-> FALSE, pick |-> 0], 1, Len(cls)), LAMBDA st :
        IF st.conflict \/ st.pick = 0 \/ st.asg = asg THEN st
        ELSE propagate(cls, st.asg))

RECURSIVE dpll(_, _)
dpll(cls, asg) ==
    Then(propagate(cls, asg), LAMBDA st :
        IF st.conflict THEN [sat |-> FALSE, model |-> asg]
        ELSE IF st.pick = 0 THEN [sat |-> TRUE, model |-> st.asg]
        ELSE Then(dpll(cls, [st.asg EXCEPT ![st.pick] = 1]), LAMBDA t :
                IF t.sat THEN t ELSE dpll(cls, [st.asg EXCEPT ![st.pick] = -1])))

\* solve() over variables 1..nvars
solve(cls, nvars) ==
    Then(cls, LAMBDA given : dpll(given, [vv \in 1..nvars |-> 0]))
\* ------------------------------------------------------ MD5 tables (md5.py)
S_table == << <<7, 12, 17, 22>>,
             <<5, 9, 14, 20>>,
             <<4, 11, 16, 23>>,
             <<6, 10, 15, 21>> >>

\* int(4294967296 * abs(math.sin(i + 1))) & 0xffffffff for i = 0..63, each
\* constant kept to its low 16 bits (TLC integers are 32 bits wide; WordBits <= 16)
K_table == <<
    42104, 46934, 28891, 52974, 4015, 50730, 17939, 38145,
    39128, 63407, 23473, 55230, 4386, 29075, 17294, 2081,
    9570, 45888, 23121, 51114, 4189, 5203, 59009, 64456,
    52710, 2006, 3463, 5357, 59653, 41976, 729, 19594,
    14658, 63105, 24866, 14348, 59972, 53161, 19296, 48240,
    32454, 10234, 12421, 7429, 53305, 39397, 31992, 22117,
    8772, 65431, 9127, 41017, 22979, 52370, 62589, 24017,
    32335, 59104, 17172, 4513, 32386, 62005, 53947, 54161 >>

\* MD5.S(i) = S_table[i // 16][i % 4], as a rotation of a WordBits-bit word
S(i) == S_table[(i \div RoundSteps) + 1][(i % 4) + 1] % WordBits

\* MD5.K(i), reduced to the word width
K(i) == K_table[i + 1] % WordMod

\* the initial vector 0x67452301, 0xefcdab89, 0x98badcfe, 0x10325476, each kept to
\* its low 16 bits: 0x2301, 0xab89, 0xdcfe, 0x5476
IV_A == 8961
IV_B == 43913
IV_C == 56574
IV_D == 21622


\* --------------------------------------------------------- construction
NoneBytes == <<-1>>

\* _init_vars
init_vars(self, num_chunks) ==
    Then(init_number(self, ChunkBits * num_chunks), LAMBDA s1 :
    Then(init_number([s1 EXCEPT !.x = s1.ret], WordBits), LAMBDA s2 :
    Then(init_number([s2 EXCEPT !.a = s2.ret], WordBits), LAMBDA s3 :
    Then(init_number([s3 EXCEPT !.b = s3.ret], WordBits), LAMBDA s4 :
    Then(init_number([s4 EXCEPT !.c = s4.ret], WordBits), LAMBDA s5 :
        [s5 EXCEPT !.d = s5.ret])))))

\* variant: the byte a position belongs to is not looked at
byte_exclude_bits_any_byte(exclude_input_bits, i) ==
    {ee % ByteBits : ee \in exclude_input_bits}

\* exclude_bits of byte i: [e % 8 for e in exclude_input_bits if e // 8 == i]
byte_exclude_bits(exclude_input_bits, i) ==
    {ee % ByteBits : ee \in {ff \in exclude_input_bits : ff \div ByteBits = i}}

\* for i in range(lo, hi): self._add_constant(byte i of self.x, input_bytes[i], exclude_bits)
RECURSIVE input_loop(_, _, _, _, _)
input_loop(self, input_bytes, exclude_input_bits, lo, hi) ==
    IF lo >= hi THEN self
    ELSE IF hi = lo + 1
    THEN add_constant(self, get_byte_vars(self.x, lo), At(input_bytes, lo),
                      byte_exclude_bits(exclude_input_bits, lo))
    ELSE Then(input_loop(self, input_bytes, exclude_input_bits, lo, (lo + hi) \div 2),
              LAMBDA s : input_loop(s, input_bytes, exclude_input_bits, (lo + hi) \div 2, hi))

\* the attributes __init__ assigns before it calls _init_vars
NewCollider(target_digest) ==
    [var_idx |-> 1, clauses |-> <<>>, a |-> <<>>, b |-> <<>>, c |-> <<>>,
     d |-> <<>>, x |-> <<>>, target_digest |-> target_digest,
     ret |-> <<>>, issued |-> <<>>, steps |-> <<>>]

\* MD5Collider.__init__ (the assert on len(input_bytes) is the caller's guard)
Collider(input_bytes, exclude_input_bits, target_digest) ==
    Then(init_vars(NewCollider(target_digest),
                   IF input_bytes # NoneBytes THEN Len(input_bytes) \div ChunkBytes ELSE 1),
         LAMBDA s1 :
    Then(IF input_bytes # NoneBytes
         THEN input_loop(s1, input_bytes, exclude_input_bits, 0, Len(input_bytes))
         ELSE s1, LAMBDA s2 :
    Then(add_constant(s2, s2.a, IV_A % WordMod, {}), LAMBDA s3 :
    Then(add_constant(s3, s3.b, IV_B % WordMod, {}), LAMBDA s4 :
    Then(add_constant(s4, s4.c, IV_C % WordMod, {}), LAMBDA s5 :
        add_constant(s5, s5.d, IV_D % WordMod, {}))))))

\* ------------------------------------------------- round function and step
\* variant: the function of round 0 in every round
add_F_round0(self, b, c, d, i) ==
    Then(add_and(self, b, c, NoneVec), LAMBDA s1 :
    Then(add_not(s1, b, NoneVec), LAMBDA s2 :
    Then(add_and(s2, s2.ret, d, NoneVec), LAMBDA s3 :
        add_or(s3, s1.ret, s3.ret, NoneVec))))

\* (the last else, raise ValueError, is step_valid below)
add_F(self, b, c, d, i) ==
    IF i < RoundSteps
    THEN Then(add_and(self, b, c, NoneVec), LAMBDA s1 :
         Then(add_not(s1, b, NoneVec), LAMBDA s2 :
         Then(add_and(s2, s2.ret, d, NoneVec), LAMBDA s3 :
             add_or(s3, s1.ret, s3.ret, NoneVec))))
    ELSE IF i < 2 * RoundSteps
    THEN Then(add_and(self, b, d, NoneVec), LAMBDA s1 :
         Then(add_not(s1, d, NoneVec), LAMBDA s2 :
         Then(add_and(s2, c, s2.ret, NoneVec), LAMBDA s3 :
             add_or(s3, s1.ret, s3.ret, NoneVec))))
    ELSE IF i < 3 * RoundSteps
    THEN Then(add_xor(self, b, c, NoneVec), LAMBDA s1 :
             add_xor(s1, s1.ret, d, NoneVec))
    ELSE Then(add_not(self, d, NoneVec), LAMBDA s1 :
         Then(add_or(s1, b, s1.ret, NoneVec), LAMBDA s2 :
             add_xor(s2, c, s2.ret, NoneVec)))

\* f, k, the three sums of comb, rot, and the final sum, in evaluation order
add_combine_words(self, a, b, c, d, x, i) ==
    Then(add_F(self, b, c, d, i), LAMBDA s1 :
    Then(init_number(s1, WordBits), LAMBDA s2 :
    Then(add_constant(s2, s2.ret, K(i), {}), LAMBDA s3 :
    Then(add_sum(s3, a, s1.ret, NoneVec), LAMBDA s4 :
    Then(add_sum(s4, x, s3.ret, NoneVec), LAMBDA s5 :
    Then(add_sum(s5, s4.ret, s5.ret, NoneVec), LAMBDA s6 :
    Then(add_rotate_left(s6, s6.ret, S(i), NoneVec), LAMBDA s7 :
        add_sum(s7, s7.ret, b, NoneVec))))))))

\* returns (a_new, b_new, c_new, d_new) = (d, combine, b, c) in ret
add_md5_iteration(self, a, b, c, d, x, i) ==
    Then(add_combine_words(self, a, b, c, d, x, i), LAMBDA s1 :
        [s1 EXCEPT !.ret = <<d, s1.ret, b, c>>,
                   !.steps = Append(@, [a |-> a, b |-> b, c |-> c, d |-> d, x |-> x,
                                        i |-> i, ret |-> <<d, s1.ret, b, c>>])])

\* ------------------------------------------------------------------ chunk
\* variant: every round reads the words in the order 1, 2, ..., 15, 0
word_index_shifted(i, iter) == (iter + 1) % ChunkWords

\* the message word read at step iter of round i
word_index(i, iter) ==
    IF i = 1 THEN (5 * iter + 1) % ChunkWords
    ELSE IF i = 2 THEN (3 * iter + 5) % ChunkWords
    ELSE IF i = 3 THEN (7 * iter) % ChunkWords
    ELSE iter % ChunkWords

\* the loop body: the locals a, b, c, d are self.ret before and after
chunk_step(self, chunk_idx, iter) ==
    add_md5_iteration(self, self.ret[1], self.ret[2], self.ret[3], self.ret[4],
        convert_endianness(get_word_vars(self.x,
            chunk_idx * ChunkWords + word_index(iter \div RoundSteps, iter))),
        iter)

\* the steps iter = lo .. hi-1 of the two nested loops, in order
RECURSIVE chunk_loop(_, _, _, _)
chunk_loop(self, chunk_idx, lo, hi) ==
    IF lo >= hi THEN self
    ELSE IF hi = lo + 1 THEN Then(self, LAMBDA s : chunk_step(s, chunk_idx, lo))
    ELSE Then(chunk_loop(self, chunk_idx, lo, (lo + hi) \div 2),
              LAMBDA s : chunk_loop(s, chunk_idx, (lo + hi) \div 2, hi))

\* variant: the registers after the rounds become the state as they are
solve_md5_chunk_unchained(self, chunk_idx, num_rounds) ==
    Then(chunk_loop([self EXCEPT !.ret = <<self.a, self.b, self.c, self.d>>],
                    chunk_idx, 0, num_rounds * RoundSteps), LAMBDA s1 :
        [s1 EXCEPT !.a = s1.ret[1], !.b = s1.ret[2], !.c = s1.ret[3], !.d = s1.ret[4]])

\* solve_md5_chunk (the assert num_rounds in [1,2,3,4] is the caller's guard)
solve_md5_chunk(self, chunk_idx, num_rounds) ==
    Then(chunk_loop([self EXCEPT !.ret = <<self.a, self.b, self.c, self.d>>],
                    chunk_idx, 0, num_rounds * RoundSteps), LAMBDA s1 :
    Then(add_sum(s1, s1.a, s1.ret[1], NoneVec), LAMBDA s2 :
    Then(add_sum([s2 EXCEPT !.a = s2.ret], s2.b, s1.ret[2], NoneVec), LAMBDA s3 :
    Then(add_sum([s3 EXCEPT !.b = s3.ret], s3.c, s1.ret[3], NoneVec), LAMBDA s4 :
    Then(add_sum([s4 EXCEPT !.c = s4.ret], s4.d, s1.ret[4], NoneVec), LAMBDA s5 :
        [s5 EXCEPT !.d = s5.ret])))))

\* for i in range(lo, hi): self.solve_md5_chunk(i, num_rounds)
RECURSIVE chunks_loop(_, _, _, _)
chunks_loop(self, lo, hi, num_rounds) ==
    IF lo >= hi THEN self
    ELSE Then(solve_md5_chunk(self, lo, num_rounds),
              LAMBDA s : chunks_loop(s, lo + 1, hi, num_rounds))

\* variant: the digits are taken from the other end
wide_shr_low_reversed(t, words) == t[words + 1]

\* A 128-bit integer (a digest) is held as its four base-2^WordBits digits, most
\* significant first.  (t >> 96), (t >> 64) & 0xffffffff, (t >> 32) & 0xffffffff and
\* t & 0xffffffff are the digits the shift leaves lowest:
wide_shr_low(t, words) == t[Len(t) - words]

\* the four _add_constant calls under `if self.target_digest is not None`
add_target(self, t) ==
    Then(add_constant(self, convert_endianness(self.a), wide_shr_low(t, 3), {}), LAMBDA s2 :
    Then(add_constant(s2, convert_endianness(s2.b), wide_shr_low(t, 2), {}), LAMBDA s3 :
    Then(add_constant(s3, convert_endianness(s3.c), wide_shr_low(t, 1), {}), LAMBDA s4 :
        add_constant(s4, convert_endianness(s4.d), wide_shr_low(t, 0), {}))))

\* solve_md5 up to the solver call: every chunk, then the digest constraint
solve_md5_encode(self, num_rounds) ==
    Then(chunks_loop(self, 0, Len(self.x) \div ChunkBits, num_rounds), LAMBDA s1 :
        IF s1.target_digest = NoneWide THEN s1 ELSE add_target(s1, s1.target_digest))

\* --------------------------------------------------------------- decoding
\* solver.get_model(): the list of signed literals, model[v-1] = v or -v
get_model(asg) == [vv \in 1..Len(asg) |-> IF asg[vv] > 0 THEN vv ELSE -vv]

\* bit_val = model[bit_var-1] > 0, for the variable at position j of vars
bit_val(model, vars, j) == IF At(model, At(vars, j) - 1) > 0 THEN 1 ELSE 0

\* the byte built from positions 8n .. 8n+7: byte |= bit_val << (8 - (j % 8) - 1)
RECURSIVE pack_byte(_, _, _, _)
pack_byte(model, vars, n, jj) ==
    IF jj = ByteBits THEN 0
    ELSE bit_val(model, vars, n * ByteBits + jj) * Pow2(ByteBits - jj - 1)
         + pack_byte(model, vars, n, jj + 1)

\* solution_to_bytes: one byte for every full group of 8 positions
solution_to_bytes(model, vars, conv) ==
    Then(IF conv THEN convert_endianness(vars) ELSE vars, LAMBDA vs :
        [kk \in 1..(Len(vs) \div ByteBits) |-> pack_byte(model, vs, kk - 1, 0)])

\* int.from_bytes(bs[lo..hi], 'big'), positions counted from 1
RECURSIVE from_bytes_big(_, _, _)
from_bytes_big(bs, lo, hi) ==
    IF hi < lo THEN 0
    ELSE from_bytes_big(bs, lo, hi - 1) * Pow2(ByteBits) + bs[hi]

\* int.from_bytes(bs, 'big') of 4 * WordBytes bytes, as four digits
from_bytes_wide(bs) ==
    [kk \in 1..4 |-> from_bytes_big(bs, (kk - 1) * WordBytes + 1, kk * WordBytes)]

\* int.from_bytes(bs, 'little')
RECURSIVE from_bytes_little(_, _)
from_bytes_little(bs, lo) ==
    IF lo > Len(bs) THEN 0
    ELSE bs[lo] + Pow2(ByteBits) * from_bytes_little(bs, lo + 1)

\* v.to_bytes(n, 'little')
to_bytes_little(v, n) == [kk \in 1..n |-> Shr(v, (kk - 1) * ByteBits) % Pow2(ByteBits)]

\* process_solution: (message bytes, digest integer)
process_solution(self, model) ==
    [x |-> solution_to_bytes(model, self.x, FALSE),
     digest |-> from_bytes_wide(solution_to_bytes(model, self.a, TRUE)
                                \o solution_to_bytes(model, self.b, TRUE)
                                \o solution_to_bytes(model, self.c, TRUE)
                                \o solution_to_bytes(model, self.d, TRUE))]

\* ------------------------------------------------- reference MD5 (md5.py)
\* Python's &, |, ^, ~ on unbounded integers (two's complement)
RECURSIVE BitAnd(_, _)
BitAnd(x, y) ==
    IF x = 0 \/ y = 0 THEN 0
    ELSE IF x = -1 THEN y
    ELSE IF y = -1 THEN x
    ELSE (x % 2) * (y % 2) + 2 * BitAnd(x \div 2, y \div 2)

RECURSIVE BitOr(_, _)
BitOr(x, y) ==
    IF x = 0 THEN y
    ELSE IF y = 0 THEN x
    ELSE IF x = -1 \/ y = -1 THEN -1
    ELSE (IF x % 2 = 1 \/ y % 2 = 1 THEN 1 ELSE 0) + 2 * BitOr(x \div 2, y \div 2)

BitNot(x) == -x - 1

RECURSIVE BitXor(_, _)
BitXor(x, y) ==
    IF x = 0 THEN y
    ELSE IF y = 0 THEN x
    ELSE IF x = -1 THEN BitNot(y)
    ELSE IF y = -1 THEN BitNot(x)
    ELSE ((x + y) % 2) + 2 * BitXor(x \div 2, y \div 2)

MD5_F(b, c, d, i) ==
    IF i < RoundSteps THEN BitOr(BitAnd(b, c), BitAnd(BitNot(b), d))
    ELSE IF i < 2 * RoundSteps THEN BitOr(BitAnd(b, d), BitAnd(c, BitNot(d)))
    ELSE IF i < 3 * RoundSteps THEN BitXor(BitXor(b, c), d)
    ELSE BitXor(c, BitOr(b, BitNot(d)))

\* (((x) << n) | ((x) >> (32 - n))) & 0xffffffff after x = x & 0xffffffff
MD5_ROT(x, i) ==
    Then(x % WordMod, LAMBDA xm :
        BitOr(xm * Pow2(S(i)), Shr(xm, WordBits - S(i))) % WordMod)

\* not reduced: ROT(...) + b
MD5_combine_words(a, b, c, d, x, i) ==
    Then(MD5_F(b, c, d, i), LAMBDA f :
    Then(a + f + x + K(i), LAMBDA comb :
        MD5_ROT(comb, i) + b))

\* x: the word's bytes; returns <<a_new, b_new, c_new, d_new>>
MD5_iteration(a, b, c, d, x, i) ==
    <<d, MD5_combine_words(a, b, c, d, from_bytes_little(x, 1), i), b, c>>

\* md5_chunk's own copy of the message schedule
MD5_word_index(i, iter) ==
    IF i = 1 THEN (5 * iter + 1) % ChunkWords
    ELSE IF i = 2 THEN (3 * iter + 5) % ChunkWords
    ELSE IF i = 3 THEN (7 * iter) % ChunkWords
    ELSE iter % ChunkWords

\* the loop body on regs = <<a, b, c, d>>
MD5_chunk_step(regs, input_bytes, iter) ==
    MD5_iteration(regs[1], regs[2], regs[3], regs[4],
        Slice(input_bytes, MD5_word_index(iter \div RoundSteps, iter) * WordBytes,
              MD5_word_index(iter \div RoundSteps, iter) * WordBytes + WordBytes),
        iter)

\* the steps iter = lo .. hi-1, in order
RECURSIVE MD5_chunk_loop(_, _, _, _)
MD5_chunk_loop(regs, input_bytes, lo, hi) ==
    IF lo >= hi THEN regs
    ELSE IF hi = lo + 1 THEN Then(regs, LAMBDA r : MD5_chunk_step(r, input_bytes, lo))
    ELSE Then(MD5_chunk_loop(regs, input_bytes, lo, (lo + hi) \div 2),
              LAMBDA r : MD5_chunk_loop(r, input_bytes, (lo + hi) \div 2, hi))

\* md5_chunk on the state st = <<a, b, c, d>>
MD5_chunk(st, input_bytes, num_rounds) ==
    Then(MD5_chunk_loop(st, input_bytes, 0, num_rounds * RoundSteps), LAMBDA r :
        [kk \in 1..4 |-> (st[kk] + r[kk]) % WordMod])

\* for i in range(0, len(input_bytes), 64), from offset i on
RECURSIVE MD5_chunks(_, _, _, _)
MD5_chunks(st, input_bytes, i, num_rounds) ==
    IF i >= Len(input_bytes) THEN st
    ELSE Then(MD5_chunk(st, Slice(input_bytes, i, i + ChunkBytes), num_rounds),
              LAMBDA st2 : MD5_chunks(st2, input_bytes, i + ChunkBytes, num_rounds))

\* MD5().md5_digest for an input whose length is a multiple of the chunk size
MD5_digest(input_bytes, num_rounds) ==
    Then(MD5_chunks(<<IV_A % WordMod, IV_B % WordMod, IV_C % WordMod, IV_D % WordMod>>,
                    input_bytes, 0, num_rounds), LAMBDA st :
        from_bytes_wide(to_bytes_little(st[1], WordBytes) \o to_bytes_little(st[2], WordBytes)
                        \o to_bytes_little(st[3], WordBytes) \o to_bytes_little(st[4], WordBytes)))

\* ================================================================= state
\* enc[i]     encoder instance i (NoEncoder before its construction)
\* pc[i]      "none", "built", "solving" (inside solver.solve_limited), "returned",
\*            "failed" (the call raised)
\* args[i]    the arguments instance i is constructed with and the round count
\*            its caller passes to solve_md5
\* sat[i]     what solve_limited returned: "True", "False", "None" (interrupted);
\*            "unset" before
\* model[i]   solver.get_model() after a "True"
\* out[i]     the value solve_md5 returned
\* last       the gadget method called on instance 1 (gadget specification)
VARIABLES enc, pc, args, sat, model, out, last

vars == <<enc, pc, args, sat, model, out, last>>

NoEncoder == [var_idx |-> 0, clauses |-> <<>>, a |-> <<>>, b |-> <<>>, c |-> <<>>,
              d |-> <<>>, x |-> <<>>, target_digest |-> NoneWide,
              ret |-> <<>>, issued |-> <<>>, steps |-> <<>>]

NoOut == [sat |-> FALSE, some |-> FALSE, x |-> <<>>, digest |-> NoneWide]
\* last: the method (op), its vector arguments a and b, the vector c it returned, its
\* integer argument k (rotation amount or constant), its exclude_bits, whether the
\* output vector was passed in (given), and the number of clauses (base) and the
\* counter (vars0) of the instance when the method was entered
NoLast == [op |-> "none", a |-> <<>>, b |-> <<>>, c |-> <<>>, k |-> 0, excl |-> {},
           base |-> 0, vars0 |-> 0, given |-> FALSE]

\* variant: the counter is one attribute shared by all instances
Self_shared_counter(i) ==
    [enc[i] EXCEPT !.var_idx = CHOOSE m \in {enc[jj].var_idx : jj \in DOMAIN enc} :
                                  \A jj \in DOMAIN enc : m >= enc[jj].var_idx]

\* the receiver of a method call on instance i: the attributes of that instance
Self(i) == enc[i]

\* what solve_md5 returns, given solve_limited's value:
\*   if not sat: return False, None;  return sat, self.process_solution(get_model())
solve_md5_return(self, sat_value, mdl) ==
    IF sat_value # "True" THEN NoOut
    ELSE Then(process_solution(self, mdl), LAMBDA r :
            [sat |-> TRUE, some |-> TRUE, x |-> r.x, digest |-> r.digest])

\* solve_limited's value and get_model() for the search result res; a variable the
\* search left undecided has the value fill in the model
solver_value(res) == IF res.sat THEN "True" ELSE "False"
solver_model(res, fill) ==
    IF res.sat
    THEN get_model([vv \in 1..Len(res.model) |->
                      IF res.model[vv] = 0 THEN fill ELSE res.model[vv]])
    ELSE <<>>

\* ----------------------------------------------------------- the inputs
\* sample messages of nchunks chunks; seed 0 is all zero bytes, and Msg(seed, 0) is
\* the empty message
Msg(seed, nchunks) ==
    [kk \in 1..(nchunks * ChunkBytes) |-> (seed * (kk + (kk \div 5))) % Pow2(ByteBits)]

AllOnes == [kk \in 1..ChunkBytes |-> Pow2(ByteBits) - 1]

\* the byte value val with the bits at the positions (from the least significant
\* bit) in W complemented
RECURSIVE FlipByte(_, _, _)
FlipByte(val, W, jj) ==
    IF jj = ByteBits THEN 0
    ELSE ((BitOf(val, jj) + (IF jj \in W THEN 1 ELSE 0)) % 2) * Pow2(jj)
         + FlipByte(val, W, jj + 1)

\* input_bytes with the bits at the positions in P complemented: bit p is in byte
\* p // 8, at offset p % 8 counted from the byte's most significant bit
FlipBits(input_bytes, P) ==
    [kk \in 1..Len(input_bytes) |->
        FlipByte(input_bytes[kk],
                 {ByteBits - 1 - (pp % ByteBits) :
                     pp \in {qq \in P : qq \div ByteBits = kk - 1}}, 0)]

FlipFirst == {0}
FlipLast  == {ChunkBits - 1}
FlipThree == {ByteBits - 1, ByteBits, 3 * ByteBits + 1}

\* a digest that differs from t in its first component
WrongDigest(t) == [t EXCEPT ![1] = (@ + 1) % WordMod]

Scn(m, P, t, r) ==
    [input_bytes |-> m, exclude_input_bits |-> P, target_digest |-> t, num_rounds |-> r]

Scenarios ==
       {Scn(m, {}, NoneWide, 1) : m \in {Msg(1, 1), Msg(3, 1), Msg(0, 1), AllOnes, Msg(1, 2)}}
  \cup {Scn(Msg(1, 0), {}, NoneWide, r) : r \in {4, 0, 5}}
  \cup {Scn(Msg(1, 1), {}, NoneWide, r) : r \in {0, 5}}
  \cup {Scn(Msg(1, 1), {}, NoneWide, r) : r \in 2..4}
  \cup {Scn(Msg(3, 2), {}, NoneWide, 4)}
  \cup {Scn(m, {}, MD5_digest(m, 1), 1) : m \in {Msg(1, 1), Msg(0, 1), Msg(1, 2)}}
  \cup {Scn(Msg(1, 1), {}, MD5_digest(Msg(1, 1), 2), 2),
        Scn(Msg(1, 1), {}, WrongDigest(MD5_digest(Msg(1, 1), 1)), 1)}
  \cup {Scn(m, P, NoneWide, 1) : m \in {Msg(1, 1), Msg(3, 1), Msg(0, 1)},
                                 P \in {FlipFirst, FlipLast, FlipThree}}
  \cup {Scn(Msg(1, 1), FlipFirst, MD5_digest(Msg(1, 1), 1), 1),
        Scn(Msg(1, 1), FlipThree, MD5_digest(FlipBits(Msg(1, 1), FlipThree), 1), 1)}

\* ------------------------------------------------------------- actions
\* assert num_rounds in [1, 2, 3, 4], the first statement of solve_md5_chunk
rounds_assert(num_rounds) == num_rounds \in {1, 2, 3, 4}

\* whether solve_md5 gets past its chunk loop: solve_md5_chunk, and so its
\* assert, runs once per chunk, the first time before anything is emitted
chunks_pass(self, num_rounds) ==
    Len(self.x) \div ChunkBits > 0 => rounds_assert(num_rounds)

\* solve_md5 up to and including the call of solver.solve_limited, which blocks;
\* or up to the AssertionError of the first solve_md5_chunk
Encode(i) ==
    /\ pc[i] = "built"
    /\ IF chunks_pass(Self(i), args[i].num_rounds)
       THEN /\ enc' = [enc EXCEPT ![i] = solve_md5_encode(Self(i), args[i].num_rounds)]
            /\ pc' = [pc EXCEPT ![i] = "solving"]
       ELSE /\ pc' = [pc EXCEPT ![i] = "failed"]
            /\ UNCHANGED enc
    /\ UNCHANGED <<args, sat, model, out, last>>

\* solve_limited finishes: True with a model, or False.  A variable the search
\* left undecided gets either value in the model.
SolverReturns(i, fill) ==
    /\ pc[i] = "solving"
    /\ \E res \in {solve(enc[i].clauses, enc[i].var_idx - 1)} :
       \E mdl \in {solver_model(res, fill)} :
          /\ sat' = [sat EXCEPT ![i] = solver_value(res)]
          /\ model' = [model EXCEPT ![i] = mdl]
          /\ out' = [out EXCEPT ![i] = solve_md5_return(Self(i), solver_value(res), mdl)]
    /\ pc' = [pc EXCEPT ![i] = "returned"]
    /\ UNCHANGED <<enc, args, last>>

\* solver.interrupt() from another thread while solve_limited runs
\* (expect_interrupt=True): solve_limited returns None
Interrupt(i) ==
    /\ pc[i] = "solving"
    /\ sat' = [sat EXCEPT ![i] = "None"]
    /\ out' = [out EXCEPT ![i] = solve_md5_return(Self(i), "None", <<>>)]
    /\ pc' = [pc EXCEPT ![i] = "returned"]
    /\ UNCHANGED <<enc, args, model, last>>

\* ------------------------------------------------- one encoder, end to end
Init ==
    \E sc \in Scenarios :
        /\ enc = <<Collider(sc.input_bytes, sc.exclude_input_bits, sc.target_digest)>>
        /\ pc = <<"built">>
        /\ args = <<sc>>
        /\ sat = <<"unset">>
        /\ model = << <<>> >>
        /\ out = <<NoOut>>
        /\ last = NoLast

Next ==
    \/ Encode(1)
    \/ \E fill \in {-1, 1} : SolverReturns(1, fill)
    \/ Interrupt(1)

Spec == Init /\ [][Next]_vars

\* ------------------------------------------------- one gadget on an encoder
\* The widths a gadget is called with are 1 .. MaxWidth.
MaxWidth == 3

Values(n) == 0..(Pow2(n) - 1)

\* the caller's vectors: two operands and, when given, an output vector, each
\* obtained from _init_number(n)
Operands(self, n, given) ==
    Then(init_number(self, n), LAMBDA s1 :
    Then(init_number(s1, n), LAMBDA s2 :
    Then(IF given THEN init_number(s2, n) ELSE [s2 EXCEPT !.ret = NoneVec], LAMBDA s3 :
        [self |-> s3, a |-> s1.ret, b |-> s2.ret, c |-> s3.ret])))

Called(op, o, after, k, excl) ==
    [op |-> op, a |-> o.a, b |-> o.b, c |-> after.ret, k |-> k, excl |-> excl,
     base |-> Len(o.self.clauses), vars0 |-> o.self.var_idx, given |-> o.c # NoneVec]

AddOr(n, given) ==
    /\ pc[1] = "built" /\ last.op = "none"
    /\ \E o \in {Operands(Self(1), n, given)} :
       \E after \in {add_or(o.self, o.a, o.b, o.c)} :
          /\ enc' = [enc EXCEPT ![1] = after]
          /\ last' = Called("or", o, after, 0, {})
    /\ UNCHANGED <<pc, args, sat, model, out>>

AddAnd(n, given) ==
    /\ pc[1] = "built" /\ last.op = "none"
    /\ \E o \in {Operands(Self(1), n, given)} :
       \E after \in {add_and(o.self, o.a, o.b, o.c)} :
          /\ enc' = [enc EXCEPT ![1] = after]
          /\ last' = Called("and", o, after, 0, {})
    /\ UNCHANGED <<pc, args, sat, model, out>>

AddXor(n, given) ==
    /\ pc[1] = "built" /\ last.op = "none"
    /\ \E o \in {Operands(Self(1), n, given)} :
       \E after \in {add_xor(o.self, o.a, o.b, o.c)} :
          /\ enc' = [enc EXCEPT ![1] = after]
          /\ last' = Called("xor", o, after, 0, {})
    /\ UNCHANGED <<pc, args, sat, model, out>>

AddNot(n, given) ==
    /\ pc[1] = "built" /\ last.op = "none"
    /\ \E o \in {Operands(Self(1), n, given)} :
       \E after \in {add_not(o.self, o.a, o.c)} :
          /\ enc' = [enc EXCEPT ![1] = after]
          /\ last' = Called("not", o, after, 0, {})
    /\ UNCHANGED <<pc, args, sat, model, out>>

AddSum(n, given) ==
    /\ pc[1] = "built" /\ last.op = "none"
    /\ \E o \in {Operands(Self(1), n, given)} :
       \E after \in {add_sum(o.self, o.a, o.b, o.c)} :
          /\ enc' = [enc EXCEPT ![1] = after]
          /\ last' = Called("sum", o, after, 0, {})
    /\ UNCHANGED <<pc, args, sat, model, out>>

AddRotateLeft(n, k, given) ==
    /\ pc[1] = "built" /\ last.op = "none"
    /\ \E o \in {Operands(Self(1), n, given)} :
       \E after \in {add_rotate_left(o.self, o.a, k, o.c)} :
          /\ enc' = [enc EXCEPT ![1] = after]
          /\ last' = Called("rot", o, after, k, {})
    /\ UNCHANGED <<pc, args, sat, model, out>>

\* the assert 2 ** len(bit_array) > constant holds for the constants drawn
AddConstant(n, constant, exclude_bits) ==
    /\ pc[1] = "built" /\ last.op = "none"
    /\ Pow2(n) > constant
    /\ \E o \in {Operands(Self(1), n, FALSE)} :
       \E after \in {add_constant(o.self, o.a, constant, exclude_bits)} :
          /\ enc' = [enc EXCEPT ![1] = after]
          /\ last' = Called("const", o, after, constant, exclude_bits)
    /\ UNCHANGED <<pc, args, sat, model, out>>

\* MD5Collider(None): one chunk of free message bits
InitGadget ==
    /\ enc = <<Collider(NoneBytes, {}, NoneWide)>>
    /\ pc = <<"built">>
    /\ args = <<Scn(NoneBytes, {}, NoneWide, 1)>>
    /\ sat = <<"unset">>
    /\ model = << <<>> >>
    /\ out = <<NoOut>>
    /\ last = NoLast

NextGadget ==
    \E n \in 1..MaxWidth :
        \/ \E given \in BOOLEAN : AddOr(n, given)
        \/ \E given \in BOOLEAN : AddAnd(n, given)
        \/ \E given \in BOOLEAN : AddXor(n, given)
        \/ \E given \in BOOLEAN : AddNot(n, given)
        \/ \E given \in BOOLEAN : AddSum(n, given)
        \/ \E given \in BOOLEAN : \E k \in 0..(n - 1) : AddRotateLeft(n, k, given)
        \/ \E constant \in Values(MaxWidth) : \E exclude_bits \in SUBSET (0..(n - 1)) :
              AddConstant(n, constant, exclude_bits)

SpecGadget == InitGadget /\ [][NextGadget]_vars

\* --------------------------------------------------- gadget properties
\* the unit clauses (assumptions) that fix the MSB-first vector vec to the value v
Fix(vec, v) ==
    [kk \in 1..Len(vec) |-> <<IF BitOf(v, Len(vec) - kk) = 1 THEN vec[kk] ELSE -vec[kk]>>]

\* whether the formula of instance 1 is satisfiable under the assumptions
SatUnder(assumptions) == solve(enc[1].clauses \o assumptions, enc[1].var_idx - 1).sat

\* the clauses the method recorded in last emitted
Emitted == SubSeq(enc[1].clauses, last.base + 1, Len(enc[1].clauses))

\* the bitwise function a gate stands for, on n-bit values
GateValue(op, va, vb, n) ==
    IF op = "and" THEN BitAnd(va, vb)
    ELSE IF op = "or" THEN BitOr(va, vb)
    ELSE IF op = "xor" THEN BitXor(va, vb)
    ELSE Pow2(n) - 1 - va

\* v rotated left by k, as an n-bit value
RotlValue(v, k, n) == BitOr(v * Pow2(k), Shr(v, n - k)) % Pow2(n)

\* the value with bit (n-1-i) set for every i in P
RECURSIVE MaskValue(_, _, _)
MaskValue(P, n, i) ==
    IF i = n THEN 0
    ELSE (IF i \in P THEN Pow2(n - 1 - i) ELSE 0) + MaskValue(P, n, i + 1)

\* C1: after _add_and / _add_or / _add_xor (operands a, b, output c) or _add_not
\* (operand a, output c), for every value of the operands and every asserted value of
\* the output, the formula is satisfiable exactly when the asserted output is the
\* bitwise AND / OR / XOR / NOT of the operand values.
C1_GateTruthTables ==
    /\ last.op \in {"and", "or", "xor"} =>
          \A va \in Values(Len(last.a)) : \A vb \in Values(Len(last.a)) :
          \A vc \in Values(Len(last.a)) :
             SatUnder(Fix(last.a, va) \o Fix(last.b, vb) \o Fix(last.c, vc))
                <=> (vc = GateValue(last.op, va, vb, Len(last.a)))
    /\ last.op = "not" =>
          \A va \in Values(Len(last.a)) : \A vc \in Values(Len(last.a)) :
             SatUnder(Fix(last.a, va) \o Fix(last.c, vc))
                <=> (vc = GateValue("not", va, 0, Len(last.a)))

\* an XOR gate of the largest width with a given output vector has been emitted, and
\* it accepts 1...1 xor 0...01 = 1...10
C1_Witness ==
    /\ last.op = "xor" /\ Len(last.a) = MaxWidth /\ last.given
    /\ SatUnder(Fix(last.a, Pow2(MaxWidth) - 1) \o Fix(last.b, 1)
                \o Fix(last.c, Pow2(MaxWidth) - 2))

\* C2: after _add_sum(a, b, c), for all values v_a, v_b of the operands and every
\* asserted value of c, the formula is satisfiable exactly when c is
\* (v_a + v_b) mod 2^n: the carry out of the most significant bit is discarded.
C2_SumIsAdditionMod ==
    last.op = "sum" =>
        \A va \in Values(Len(last.a)) : \A vb \in Values(Len(last.a)) :
        \A vc \in Values(Len(last.a)) :
           SatUnder(Fix(last.a, va) \o Fix(last.b, vb) \o Fix(last.c, vc))
              <=> (vc = (va + vb) % Pow2(Len(last.a)))

\* an adder of the largest width has been emitted and accepts the wrapping sum
\* (2^n - 1) + (2^n - 1) = 2^n - 2 (mod 2^n)
C2_Witness ==
    /\ last.op = "sum" /\ Len(last.a) = MaxWidth
    /\ SatUnder(Fix(last.a, Pow2(MaxWidth) - 1) \o Fix(last.b, Pow2(MaxWidth) - 1)
                \o Fix(last.c, Pow2(MaxWidth) - 2))

\* C3: after _add_rotate_left(a, k, b) with 0 <= k < n, the method has emitted two
\* clauses of two literals for each bit and allocated nothing but a missing output
\* vector, and for every value v of a and every asserted value of b the formula is
\* satisfiable exactly when b is v rotated left by k.
C3_RotateLeft ==
    last.op = "rot" =>
        /\ Len(Emitted) = 2 * Len(last.a)
        /\ \A kk \in 1..Len(Emitted) : Len(Emitted[kk]) = 2
        /\ enc[1].var_idx = last.vars0 + (IF last.given THEN 0 ELSE Len(last.a))
        /\ \A va \in Values(Len(last.a)) : \A vc \in Values(Len(last.a)) :
              SatUnder(Fix(last.a, va) \o Fix(last.c, vc))
                 <=> (vc = RotlValue(va, last.k, Len(last.a)))

\* a rotation of the largest width by n - 1 into a given output vector has been emitted
\* and maps 0...01 to 10...0
C3_Witness ==
    /\ last.op = "rot" /\ Len(last.a) = MaxWidth /\ last.k = MaxWidth - 1 /\ last.given
    /\ SatUnder(Fix(last.a, 1) \o Fix(last.c, Pow2(MaxWidth - 1)))

\* C4: after _add_constant(bit_array, constant, exclude_bits) the method has emitted
\* exactly one unit clause per position, on that position's variable, and the formula
\* is satisfiable exactly when the vector holds the constant (MSB first) with the
\* bits at the positions in exclude_bits complemented.
C4_ConstantUnits ==
    last.op = "const" =>
        /\ Len(Emitted) = Len(last.a)
        /\ \A kk \in 1..Len(Emitted) :
              /\ Len(Emitted[kk]) = 1
              /\ Abs(Emitted[kk][1]) = last.a[kk]
              /\ (Emitted[kk][1] > 0)
                    <=> ((BitOf(last.k, Len(last.a) - kk) = 1) # ((kk - 1) \in last.excl))
        /\ \A va \in Values(Len(last.a)) :
              SatUnder(Fix(last.a, va))
                 <=> (va = BitXor(last.k, MaskValue(last.excl, Len(last.a), 0)))

\* a constant of the largest width has been pinned with its first and last positions
\* excluded
C4_Witness ==
    /\ last.op = "const" /\ Len(last.a) = MaxWidth /\ last.k = 1
    /\ last.excl = {0, MaxWidth - 1}
    /\ SatUnder(Fix(last.a, Pow2(MaxWidth - 1)))

\* ------------------------------------------------ end-to-end properties
\* solve_limited of instance i has finished (it was not interrupted) and solve_md5
\* has returned
Solved(i) == pc[i] = "returned" /\ sat[i] # "None"

\* C5: an encoder built from a message of whole chunks, with no flipped bits and no
\* target digest, solved with 1..4 rounds, is satisfiable, returns the input bytes as
\* the message and returns the digest the reference MD5.md5_digest computes for the
\* same bytes and round count.
C5_FixedMessageMatchesReference ==
    (Solved(1) /\ args[1].exclude_input_bits = {} /\ args[1].target_digest = NoneWide) =>
        /\ out[1].sat
        /\ out[1].x = args[1].input_bytes
        /\ out[1].digest = MD5_digest(args[1].input_bytes, args[1].num_rounds)

\* a four-round encoding of a fixed message has been solved and decoded
C5_Witness ==
    /\ Solved(1) /\ args[1].exclude_input_bits = {} /\ args[1].target_digest = NoneWide
    /\ args[1].num_rounds = 4
    /\ out[1].sat /\ out[1].x = args[1].input_bytes

\* C6: with a fixed message, no flipped bits and the message's true digest as
\* target_digest the encoder is satisfiable; and for any target digest, a returned
\* solution's digest is the target digest.
C6_TargetDigestConsistent ==
    /\ (Solved(1) /\ args[1].exclude_input_bits = {}
           /\ args[1].target_digest = MD5_digest(args[1].input_bytes, args[1].num_rounds))
          => out[1].sat
    /\ (Solved(1) /\ args[1].target_digest # NoneWide /\ out[1].sat)
          => out[1].digest = args[1].target_digest

\* a two-chunk message pinned to its true digest has been solved
C6_Witness ==
    /\ Solved(1) /\ Len(args[1].input_bytes) = 2 * ChunkBytes
    /\ args[1].target_digest # NoneWide
    /\ out[1].sat /\ out[1].digest = args[1].target_digest

\* C7: when the solver call of solve_md5 is interrupted, the value solve_md5 returns
\* differs from the value it returns for an unsatisfiable formula.
C7_InterruptDistinctFromUnsat ==
    (pc[1] = "returned" /\ sat[1] = "None") =>
        out[1] # solve_md5_return(Self(1), "False", <<>>)

\* C8: an encoder built from input_bytes and flipped positions P, with no target
\* digest, is satisfiable, and the decoded message is input_bytes with exactly the
\* bits at the positions in P complemented.
C8_FlippedBitsDecoded ==
    (Solved(1) /\ args[1].target_digest = NoneWide) =>
        /\ out[1].sat
        /\ out[1].x = FlipBits(args[1].input_bytes, args[1].exclude_input_bits)

\* a message with three flipped positions in three different bytes has been decoded,
\* and differs from the input
C8_Witness ==
    /\ Solved(1) /\ args[1].target_digest = NoneWide
    /\ args[1].exclude_input_bits = FlipThree
    /\ out[1].sat /\ out[1].x # args[1].input_bytes

\* the identifiers an instance has handed out are positive, strictly increasing, and
\* below its counter
IssuedFresh(self) ==
    \A kk \in 1..Len(self.issued) :
        /\ self.issued[kk] >= 1
        /\ kk > 1 => self.issued[kk] > self.issued[kk - 1]
        /\ self.var_idx > self.issued[kk]

\* C10: in every state every identifier an instance has handed out is positive and
\* larger than all it handed out before, and the counter is larger than all of them;
\* no step lowers the counter or changes the identifiers already handed out.
C10_AllocatorMonotonic ==
    /\ [](IssuedFresh(enc[1]))
    /\ [][/\ enc'[1].var_idx >= enc[1].var_idx
          /\ Len(enc'[1].issued) >= Len(enc[1].issued)
          /\ SubSeq(enc'[1].issued, 1, Len(enc[1].issued)) = enc[1].issued]_vars

\* the chunk compilation has allocated identifiers beyond those of the constructor
C10_Witness ==
    /\ pc[1] = "solving"
    /\ Len(enc[1].issued) > Len(enc[1].x) + 4 * WordBits
    /\ enc[1].var_idx = Len(enc[1].issued) + 1

\* ------------------------------------------------- several encoders at once
\* Instances 1 and 2 are constructed with the same arguments and solved with the same
\* round count; instance 3 is another encoder.  Their constructions and their
\* compilations interleave in every order.
Instances == 1..3

\* MD5Collider(input_bytes, exclude_input_bits, target_digest) for instance i
Construct(i) ==
    /\ pc[i] = "none"
    /\ enc' = [enc EXCEPT ![i] = Collider(args[i].input_bytes, args[i].exclude_input_bits,
                                        args[i].target_digest)]
    /\ pc' = [pc EXCEPT ![i] = "built"]
    /\ UNCHANGED <<args, sat, model, out, last>>

PairScenarios ==
    {Scn(Msg(1, 1), {}, NoneWide, 1),
     Scn(Msg(3, 1), FlipThree, NoneWide, 1),
     Scn(Msg(0, 1), {}, MD5_digest(Msg(0, 1), 1), 1)}

OtherScenarios ==
    {Scn(AllOnes, FlipFirst, NoneWide, 1),
     Scn(Msg(1, 2), {}, NoneWide, 1)}

InitPair ==
    \E same \in PairScenarios : \E other \in OtherScenarios :
        /\ enc = [i \in Instances |-> NoEncoder]
        /\ pc = [i \in Instances |-> "none"]
        /\ args = <<same, same, other>>
        /\ sat = [i \in Instances |-> "unset"]
        /\ model = [i \in Instances |-> <<>>]
        /\ out = [i \in Instances |-> NoOut]
        /\ last = NoLast

NextPair == \E i \in Instances : Construct(i) \/ Encode(i)

SpecPair == InitPair /\ [][NextPair]_vars

C11_BadRoundCountFailsFast ==
    ~rounds_assert(args[1].num_rounds) =>
        /\ pc[1] \in {"built", "failed"}
        /\ sat[1] = "unset"
        /\ out[1] = NoOut

\* the encoder of a message with one chunk does fail on such a round count, with
\* nothing emitted
C11_OneChunkFails ==
    /\ pc[1] = "failed"
    /\ ~rounds_assert(args[1].num_rounds)
    /\ enc[1] = Collider(args[1].input_bytes, args[1].exclude_input_bits,
                         args[1].target_digest)


\* ------------------------------------------- gadgets on vectors of any width
\* Each method is called once with vectors whose lengths are chosen one by one.
\* the caller's vectors: a of length na, b of length nb and, unless nc = 0 (None),
\* an output vector of length nc
OperandsOf(self, na, nb, nc) ==
    Then(init_number(self, na), LAMBDA s1 :
    Then(init_number(s1, nb), LAMBDA s2 :
    Then(IF nc > 0 THEN init_number(s2, nc) ELSE [s2 EXCEPT !.ret = NoneVec], LAMBDA s3 :
        [self |-> s3, a |-> s1.ret, b |-> s2.ret, c |-> s3.ret])))

\* the asserts that open _add_or, _add_and, _add_xor and _add_sum
gate_asserts(a, b, c) == Len(a) = Len(b) /\ (c # NoneVec => Len(a) = Len(c))

\* the assert that opens _add_not and _add_rotate_left, made when b is passed
output_assert(a, b) == b # NoneVec => Len(a) = Len(b)

\* the assert that opens _add_constant
constant_assert(bit_array, constant) == Pow2(Len(bit_array)) > constant

OrWidths(na, nb, nc) ==
    /\ pc[1] = "built" /\ last.op = "none"
    /\ \E o \in {OperandsOf(Self(1), na, nb, nc)} :
       IF gate_asserts(o.a, o.b, o.c)
       THEN \E after \in {add_or(o.self, o.a, o.b, o.c)} :
               /\ enc' = [enc EXCEPT ![1] = after]
               /\ last' = Called("or", o, after, 0, {})
               /\ UNCHANGED pc
       ELSE /\ enc' = [enc EXCEPT ![1] = o.self]
            /\ last' = Called("or", o, [ret |-> o.c], 0, {})
            /\ pc' = [pc EXCEPT ![1] = "failed"]
    /\ UNCHANGED <<args, sat, model, out>>

AndWidths(na, nb, nc) ==
    /\ pc[1] = "built" /\ last.op = "none"
    /\ \E o \in {OperandsOf(Self(1), na, nb, nc)} :
       IF gate_asserts(o.a, o.b, o.c)
       THEN \E after \in {add_and(o.self, o.a, o.b, o.c)} :
               /\ enc' = [enc EXCEPT ![1] = after]
               /\ last' = Called("and", o, after, 0, {})
               /\ UNCHANGED pc
       ELSE /\ enc' = [enc EXCEPT ![1] = o.self]
            /\ last' = Called("and", o, [ret |-> o.c], 0, {})
            /\ pc' = [pc EXCEPT ![1] = "failed"]
    /\ UNCHANGED <<args, sat, model, out>>

XorWidths(na, nb, nc) ==
    /\ pc[1] = "built" /\ last.op = "none"
    /\ \E o \in {OperandsOf(Self(1), na, nb, nc)} :
       IF gate_asserts(o.a, o.b, o.c)
       THEN \E after \in {add_xor(o.self, o.a, o.b, o.c)} :
               /\ enc' = [enc EXCEPT ![1] = after]
               /\ last' = Called("xor", o, after, 0, {})
               /\ UNCHANGED pc
       ELSE /\ enc' = [enc EXCEPT ![1] = o.self]
            /\ last' = Called("xor", o, [ret |-> o.c], 0, {})
            /\ pc' = [pc EXCEPT ![1] = "failed"]
    /\ UNCHANGED <<args, sat, model, out>>

SumWidths(na, nb, nc) ==
    /\ pc[1] = "built" /\ last.op = "none"
    /\ \E o \in {OperandsOf(Self(1), na, nb, nc)} :
       IF gate_asserts(o.a, o.b, o.c)
       THEN \E after \in {add_sum(o.self, o.a, o.b, o.c)} :
               /\ enc' = [enc EXCEPT ![1] = after]
               /\ last' = Called("sum", o, after, 0, {})
               /\ UNCHANGED pc
       ELSE /\ enc' = [enc EXCEPT ![1] = o.self]
            /\ last' = Called("sum", o, [ret |-> o.c], 0, {})
            /\ pc' = [pc EXCEPT ![1] = "failed"]
    /\ UNCHANGED <<args, sat, model, out>>

NotWidths(na, nb) ==
    /\ pc[1] = "built" /\ last.op = "none"
    /\ \E o \in {OperandsOf(Self(1), na, na, nb)} :
       IF output_assert(o.a, o.c)
       THEN \E after \in {add_not(o.self, o.a, o.c)} :
               /\ enc' = [enc EXCEPT ![1] = after]
               /\ last' = Called("not", o, after, 0, {})
               /\ UNCHANGED pc
       ELSE /\ enc' = [enc EXCEPT ![1] = o.self]
            /\ last' = Called("not", o, [ret |-> o.c], 0, {})
            /\ pc' = [pc EXCEPT ![1] = "failed"]
    /\ UNCHANGED <<args, sat, model, out>>

RotateLeftWidths(na, k, nb) ==
    /\ pc[1] = "built" /\ last.op = "none"
    /\ \E o \in {OperandsOf(Self(1), na, na, nb)} :
       IF output_assert(o.a, o.c)
       THEN \E after \in {add_rotate_left(o.self, o.a, k, o.c)} :
               /\ enc' = [enc EXCEPT ![1] = after]
               /\ last' = Called("rot", o, after, k, {})
               /\ UNCHANGED pc
       ELSE /\ enc' = [enc EXCEPT ![1] = o.self]
            /\ last' = Called("rot", o, [ret |-> o.c], k, {})
            /\ pc' = [pc EXCEPT ![1] = "failed"]
    /\ UNCHANGED <<args, sat, model, out>>

ConstantWidths(na, constant) ==
    /\ pc[1] = "built" /\ last.op = "none"
    /\ \E o \in {OperandsOf(Self(1), na, na, 0)} :
       IF constant_assert(o.a, constant)
       THEN \E after \in {add_constant(o.self, o.a, constant, {})} :
               /\ enc' = [enc EXCEPT ![1] = after]
               /\ last' = Called("const", o, after, constant, {})
               /\ UNCHANGED pc
       ELSE /\ enc' = [enc EXCEPT ![1] = o.self]
            /\ last' = Called("const", o, [ret |-> o.c], constant, {})
            /\ pc' = [pc EXCEPT ![1] = "failed"]
    /\ UNCHANGED <<args, sat, model, out>>

\* _add_equality returns nothing
EqualityWidths(na, nb) ==
    /\ pc[1] = "built" /\ last.op = "none"
    /\ \E o \in {OperandsOf(Self(1), na, nb, 0)} :
       \E after \in {add_equality(o.self, o.a, o.b)} :
          /\ enc' = [enc EXCEPT ![1] = after]
          /\ last' = Called("eq", o, [ret |-> NoneVec], 0, {})
          /\ pc' = [pc EXCEPT ![1] = IF equality_raises(o.a, o.b) THEN "failed"
                                     ELSE "built"]
    /\ UNCHANGED <<args, sat, model, out>>

NextWidths ==
    \E na \in 1..MaxWidth :
        \/ \E nb \in 1..MaxWidth : \E nc \in 0..MaxWidth : OrWidths(na, nb, nc)
        \/ \E nb \in 1..MaxWidth : \E nc \in 0..MaxWidth : AndWidths(na, nb, nc)
        \/ \E nb \in 1..MaxWidth : \E nc \in 0..MaxWidth : XorWidths(na, nb, nc)
        \/ \E nb \in 1..MaxWidth : \E nc \in 0..MaxWidth : SumWidths(na, nb, nc)
        \/ \E nb \in 0..MaxWidth : NotWidths(na, nb)
        \/ \E nb \in 0..MaxWidth : \E k \in 0..(na - 1) : RotateLeftWidths(na, k, nb)
        \/ \E constant \in Values(MaxWidth) : ConstantWidths(na, constant)
        \/ \E nb \in 1..MaxWidth : EqualityWidths(na, nb)

SpecWidths == InitGadget /\ [][NextWidths]_vars

\* the vectors of the last call have more than one length (for _add_constant:
\* the constant needs more bits than the vector has)
Mismatched ==
    CASE last.op \in {"or", "and", "xor", "sum"} ->
             Len(last.a) # Len(last.b) \/ (last.given /\ Len(last.a) # Len(last.c))
      [] last.op \in {"not", "rot"} -> last.given /\ Len(last.a) # Len(last.c)
      [] last.op = "eq" -> Len(last.a) # Len(last.b)
      [] last.op = "const" -> last.k >= Pow2(Len(last.a))
      [] OTHER -> FALSE

\* C12: each of _add_and, _add_or, _add_xor, _add_not, _add_sum, _add_rotate_left,
\* _add_constant and _add_equality, called with vectors of unequal length, fails
\* and has emitted no clause.
C12_WidthMismatchFailsFast ==
    Mismatched => pc[1] = "failed" /\ Len(enc[1].clauses) = last.base

\* the same for the seven methods other than _add_equality
C12_AssertingMethodsFailFast ==
    Mismatched /\ last.op # "eq" =>
        pc[1] = "failed" /\ Len(enc[1].clauses) = last.base /\ enc[1].var_idx = last.vars0

\* _add_equality with the longer vector second returns normally with clauses emitted
C12_EqualityReturns ==
    /\ last.op = "eq" /\ Len(last.a) < Len(last.b)
    /\ pc[1] = "built"
    /\ Len(enc[1].clauses) = last.base + 2 * Len(last.a)

\* _add_equality with the longer vector first raises after clauses were emitted
C12_EqualityRaisesLate ==
    /\ last.op = "eq" /\ Len(last.a) > Len(last.b)
    /\ pc[1] = "failed"
    /\ Len(enc[1].clauses) = last.base + 2 * Len(last.b)


\* ----------------------------------------------------- the steps of a chunk
\* solve_md5 has compiled its chunks
Encoded(i) == pc[i] \in {"solving", "returned"}

\* the message word step s reads: s mod 16 in round 0, (5s + 1) mod 16 in round 1,
\* (3s + 5) mod 16 in round 2 and 7s mod 16 in round 3
StepWord(s) ==
    CASE s \div 16 = 0 -> s % 16
      [] s \div 16 = 1 -> (5 * s + 1) % 16
      [] s \div 16 = 2 -> (3 * s + 5) % 16
      [] s \div 16 = 3 -> (7 * s) % 16

\* word w of the message vector x with its bytes in reverse order
ByteReversedWord(x, w) ==
    [pp \in 1..WordBits |->
        At(x, w * WordBits + (WordBytes - 1 - (pp - 1) \div ByteBits) * ByteBits
                + ((pp - 1) % ByteBits))]

\* the record of step s of chunk ch, with n steps in each chunk
StepOf(self, n, ch, s) == self.steps[ch * n + s + 1]

Registers(step) == <<step.a, step.b, step.c, step.d>>

\* the value the model gives the MSB-first vector vec
RECURSIVE VecValue(_, _, _)
VecValue(mdl, vec, jj) ==
    IF jj = Len(vec) THEN 0
    ELSE bit_val(mdl, vec, jj) * Pow2(Len(vec) - jj - 1) + VecValue(mdl, vec, jj + 1)

\* the state vectors chunk ch leaves: those the next chunk starts from, and after
\* the last chunk those of the instance
StateAfter(self, n, ch) ==
    IF (ch + 1) * n < Len(self.steps) THEN Registers(StepOf(self, n, ch + 1, 0))
    ELSE <<self.a, self.b, self.c, self.d>>

\* the steps of the chunks of self, compiled with num_rounds rounds from the
\* constructed instance built
StepsInOrder(self, built, num_rounds) ==
    \E n \in {16 * num_rounds} : \E chunks \in {Len(self.x) \div ChunkBits} :
        /\ Len(self.steps) = chunks * n
        /\ \A ch \in 0..(chunks - 1) : \A s \in 0..(n - 1) :
              /\ StepOf(self, n, ch, s).i = s
              /\ StepOf(self, n, ch, s).x = ByteReversedWord(self.x, ch * 16 + StepWord(s))
              /\ s > 0 => Registers(StepOf(self, n, ch, s)) = StepOf(self, n, ch, s - 1).ret
        /\ \A round \in 0..(num_rounds - 1) :
              {StepWord(s) : s \in (16 * round)..(16 * round + 15)} = 0..15
        /\ chunks > 0 =>
              Registers(StepOf(self, n, 0, 0)) = <<built.a, built.b, built.c, built.d>>

\* in the model mdl, the state after each chunk is, register by register, the state
\* before it plus the registers after its last step, modulo 2^WordBits
ChainedState(self, mdl, num_rounds) ==
    \E n \in {16 * num_rounds} :
        \A ch \in 0..(Len(self.x) \div ChunkBits - 1) : \A reg \in 1..4 :
            VecValue(mdl, StateAfter(self, n, ch)[reg], 0)
              = (VecValue(mdl, Registers(StepOf(self, n, ch, 0))[reg], 0)
                 + VecValue(mdl, StepOf(self, n, ch, n - 1).ret[reg], 0)) % WordMod

\* C13: solve_md5_chunk(chunk_idx, r) encodes the 16r steps 0 .. 16r-1 in increasing
\* order; step s reads the byte-reversed message word StepWord(s) of its chunk, so
\* each round reads each of the 16 words once; each step starts from the registers
\* the step before returned; the state after the chunk is the state before it plus
\* the registers after the last step, modulo 2^WordBits, and it is the state the
\* next chunk starts from.
C13_ChunkStepsAndChaining ==
    /\ (Encoded(1) /\ rounds_assert(args[1].num_rounds)) =>
          StepsInOrder(enc[1],
                       Collider(args[1].input_bytes, args[1].exclude_input_bits,
                                args[1].target_digest),
                       args[1].num_rounds)
    /\ (Solved(1) /\ out[1].sat /\ rounds_assert(args[1].num_rounds)) =>
          ChainedState(enc[1], model[1], args[1].num_rounds)

\* a two-chunk message compiled with four rounds has been solved
C13_Witness ==
    /\ Solved(1) /\ out[1].sat
    /\ args[1].num_rounds = 4
    /\ Len(enc[1].x) \div ChunkBits = 2
    /\ Len(enc[1].steps) = 128
    /\ StepOf(enc[1], 64, 1, 63).x = ByteReversedWord(enc[1].x, 16 + 9)


\* ------------------------------------------------------- one step on its own
\* add_md5_iteration is called once, with step indices 0 .. MaxStep, on four fresh
\* register vectors and a byte-reversed word of the (free) message of MD5Collider(None).
MaxStep == 64

\* the values tried for the registers and the word of each step
StepSamples == 8

\* add_F raises ValueError("Invalid loop index") unless i < 64
step_valid(i) == i < 4 * RoundSteps

\* the caller's vectors: a, b, c, d from _init_number(32) and x as solve_md5_chunk
\* takes it from message word w
StepOperands(self, w) ==
    Then(init_number(self, WordBits), LAMBDA s1 :
    Then(init_number(s1, WordBits), LAMBDA s2 :
    Then(init_number(s2, WordBits), LAMBDA s3 :
    Then(init_number(s3, WordBits), LAMBDA s4 :
        [self |-> s4, a |-> s1.ret, b |-> s2.ret, c |-> s3.ret, d |-> s4.ret,
         x |-> convert_endianness(get_word_vars(s4.x, w))]))))

AddMd5Iteration(i, w) ==
    /\ pc[1] = "built" /\ last.op = "none"
    /\ \E o \in {StepOperands(Self(1), w)} :
       /\ last' = [NoLast EXCEPT !.op = "step", !.k = i,
                                 !.base = Len(o.self.clauses), !.vars0 = o.self.var_idx]
       /\ IF step_valid(i)
          THEN /\ enc' = [enc EXCEPT ![1] =
                            add_md5_iteration(o.self, o.a, o.b, o.c, o.d, o.x, i)]
               /\ UNCHANGED pc
          ELSE /\ enc' = [enc EXCEPT ![1] = o.self]
               /\ pc' = [pc EXCEPT ![1] = "failed"]
    /\ UNCHANGED <<args, sat, model, out>>

NextStep == \E i \in 0..MaxStep : \E w \in {0, ChunkWords - 1} : AddMd5Iteration(i, w)

SpecStep == InitGadget /\ [][NextStep]_vars

\* the t-th values tried at step s for a, b, c, d, x: all zero, all ones, and mixed
SampleValues(t, s) ==
    [jj \in 1..5 |->
        IF t = 0 THEN 0
        ELSE IF t = 1 THEN WordMod - 1
        ELSE ((7 * t + 5 * jj + 3 * s) * (t + jj + 1) + (s \div 4)) % WordMod]

\* f of the step on word values
StepF(vb, vc, vd, s) ==
    CASE s \in 0..15  -> GateValue("or", GateValue("and", vb, vc, WordBits),
                              GateValue("and", GateValue("not", vb, vb, WordBits), vd,
                                        WordBits), WordBits)
      [] s \in 16..31 -> GateValue("or", GateValue("and", vb, vd, WordBits),
                              GateValue("and", vc, GateValue("not", vd, vd, WordBits),
                                        WordBits), WordBits)
      [] s \in 32..47 -> GateValue("xor", GateValue("xor", vb, vc, WordBits), vd, WordBits)
      [] s \in 48..63 -> GateValue("xor", vc,
                              GateValue("or", vb, GateValue("not", vd, vd, WordBits),
                                        WordBits), WordBits)

\* (rotl(((a + f) mod 2^w + (x + K(s)) mod 2^w) mod 2^w, S(s)) + b) mod 2^w
StepValue(v, s) ==
    (RotlValue((((v[1] + StepF(v[2], v[3], v[4], s)) % WordMod)
                  + ((v[5] + K(s)) % WordMod)) % WordMod, S(s), WordBits)
     + v[2]) % WordMod

\* one clause: the vector vec does not have the value v
Differs(vec, v) == [kk \in 1..Len(vec) |-> -Fix(vec, v)[kk][1]]

\* the unit clauses giving the arguments of the recorded step the values v
FixStep(st, v) ==
    Fix(st.a, v[1]) \o Fix(st.b, v[2]) \o Fix(st.c, v[3]) \o Fix(st.d, v[4])
        \o Fix(st.x, v[5])

\* the call of add_md5_iteration has returned
Stepped == last.op = "step" /\ pc[1] = "built"

\* C14: add_md5_iteration(a, b, c, d, x, s), s in 0..63, returns (d, new_b, b, c) with
\* d, b, c the vectors passed in; for the values tried for a, b, c, d, x the formula
\* is satisfiable with new_b at StepValue and unsatisfiable with new_b at any other
\* value; and MD5.md5_iteration on the same values returns the same four registers
\* modulo 2^WordBits.
C14_StepMatchesReference ==
    Stepped =>
        \E st \in {enc[1].steps[1]} :
            /\ Len(enc[1].steps) = 1 /\ st.i = last.k
            /\ enc[1].ret = st.ret
            /\ st.ret[1] = st.d /\ st.ret[3] = st.b /\ st.ret[4] = st.c
            /\ \A t \in 0..(StepSamples - 1) :
                  \E v \in {SampleValues(t, st.i)} :
                  \E want \in {StepValue(v, st.i)} :
                  \E ref \in {MD5_iteration(v[1], v[2], v[3], v[4],
                                             to_bytes_little(v[5], WordBytes), st.i)} :
                      /\ SatUnder(FixStep(st, v) \o Fix(st.ret[2], want))
                      /\ ~SatUnder(FixStep(st, v) \o <<Differs(st.ret[2], want)>>)
                      /\ <<ref[1], ref[2] % WordMod, ref[3], ref[4]>>
                            = <<v[4], want, v[2], v[3]>>

\* the last step of the last round has been compiled on the last message word
C14_Witness ==
    /\ Stepped /\ last.k = 63
    /\ Len(enc[1].steps) = 1
    /\ enc[1].steps[1].x = ByteReversedWord(enc[1].x, ChunkWords - 1)
    /\ Len(enc[1].clauses) > last.base

\* a step index past 63 fails with nothing emitted
C14_InvalidStepFails ==
    /\ last.op = "step" /\ last.k = 64
    /\ pc[1] = "failed" /\ Len(enc[1].clauses) = last.base /\ enc[1].steps = <<>>

=============================================================================
